---------------------------- MODULE Spec2Model ----------------------------
(***************************************************************************)
(* career-coach: the fetch / normalize / deduplicate pipeline of           *)
(* fetcher.ts (src/unnamed/part_000) and the filter / score / rank         *)
(* pipeline of matcher.ts (src/src/matcher.ts).                            *)
(*                                                                         *)
(* Strings are sequences of one-character strings, so that toLowerCase,    *)
(* includes and template literals are computed and not assumed.  JSON      *)
(* values are records [t |-> <typeof>, v |-> <value>].                     *)
(***************************************************************************)
EXTENDS Integers, Sequences, FiniteSets, TLC

(***************************************************************************)
(* Bounds of the model.                                                    *)
(***************************************************************************)
\* longest list of raw records in one provider response
MaxRecords == 2
\* longest list of jobs handed to matchJobs
MaxJobs == 3

(***************************************************************************)
(* Program constants.                                                      *)
(***************************************************************************)
MAX_RETRIES == 2
TOP_MATCHES == 10

(***************************************************************************)
(* Strings.                                                                *)
(***************************************************************************)
Upper ==
    <<"A", "B", "C", "D", "E", "F", "G", "H", "I", "J", "K", "L", "M",
      "N", "O", "P", "Q", "R", "S", "T", "U", "V", "W", "X", "Y", "Z">>
Lower ==
    <<"a", "b", "c", "d", "e", "f", "g", "h", "i", "j", "k", "l", "m",
      "n", "o", "p", "q", "r", "s", "t", "u", "v", "w", "x", "y", "z">>

\* String.prototype.toLowerCase on one character
LowerChar(c) ==
    IF \E i \in 1..Len(Upper) : Upper[i] = c
    THEN Lower[CHOOSE i \in 1..Len(Upper) : Upper[i] = c]
    ELSE c

\* String.prototype.toLowerCase
toLowerCase(s) == [i \in 1..Len(s) |-> LowerChar(s[i])]

\* String.prototype.includes: p occurs in s as a contiguous substring
includes(s, p) ==
    \E i \in 0..(Len(s) - Len(p)) : SubSeq(s, i + 1, i + Len(p)) = p

Range(s) == {s[i] : i \in 1..Len(s)}

\* sequences over S of length at most n
RECURSIVE SeqsUpTo(_, _)
SeqsUpTo(S, n) ==
    IF n = 0 THEN {<<>>}
    ELSE LET shorter == SeqsUpTo(S, n - 1)
         IN  shorter \cup {Append(q, x) : q \in shorter, x \in S}

(***************************************************************************)
(* Numbers and their conversions.                                          *)
(***************************************************************************)
DigitChars == <<"0", "1", "2", "3", "4", "5", "6", "7", "8", "9">>
IsDigit(c) == \E d \in 1..10 : DigitChars[d] = c
DigitValue(c) == (CHOOSE d \in 1..10 : DigitChars[d] = c) - 1

\* Number.prototype.toString of a non-negative integer, as a template
\* literal `${n}` formats it
RECURSIVE Decimal(_)
Decimal(n) ==
    IF n < 10 THEN <<DigitChars[n + 1]>>
    ELSE Decimal(n \div 10) \o <<DigitChars[(n % 10) + 1]>>

\* `${n}` for an integer n
NumberToString(n) == IF n < 0 THEN <<"-">> \o Decimal(-n) ELSE Decimal(n)

RECURSIVE DigitsValue(_)
DigitsValue(s) ==
    IF s = <<>> THEN 0
    ELSE 10 * DigitsValue(SubSeq(s, 1, Len(s) - 1)) + DigitValue(s[Len(s)])

AllDigits(s) == s # <<>> /\ \A i \in 1..Len(s) : IsDigit(s[i])

\* A JavaScript number: an integer or NaN
NaN == [nan |-> TRUE, n |-> 0]
Num(n) == [nan |-> FALSE, n |-> n]

\* Number(string): "" is 0, a decimal integer literal is its value, anything
\* else is NaN
StringToNumber(s) ==
    IF s = <<>> THEN Num(0)
    ELSE IF AllDigits(s) THEN Num(DigitsValue(s))
    ELSE IF Head(s) = "-" /\ AllDigits(Tail(s)) THEN Num(-DigitsValue(Tail(s)))
    ELSE NaN

(***************************************************************************)
(* JSON values.                                                            *)
(***************************************************************************)
Undefined == [t |-> "undefined"]
Null == [t |-> "null"]
JStr(s) == [t |-> "string", v |-> s]
JNum(n) == [t |-> "number", v |-> n]
JBool(b) == [t |-> "boolean", v |-> b]
JArr(a) == [t |-> "array", v |-> a]
JObj(o) == [t |-> "object", v |-> o]

\* Number(x) for a JSON value x
ToNumber(x) ==
    CASE x.t = "number" -> Num(x.v)
      [] x.t = "string" -> StringToNumber(x.v)
      [] x.t = "null" -> Num(0)
      [] x.t = "boolean" -> Num(IF x.v THEN 1 ELSE 0)
      [] OTHER -> NaN

\* Number(x) || 0
NumberOrZero(x) ==
    LET n == ToNumber(x) IN IF n.nan \/ n.n = 0 THEN 0 ELSE n.n

(***************************************************************************)
(* Provider records.  A raw record is a JSON object; a property the object *)
(* does not have reads as Undefined.                                       *)
(***************************************************************************)
RawFields ==
    {"id", "position", "title", "company", "url", "apply_url", "date",
     "salary_min", "salary_max", "salary_min_value", "salary_max_value",
     "salary_currency", "salary_unit", "location", "country", "tags",
     "is_remote"}

EmptyObject == [f \in RawFields |-> Undefined]

\* the object with the properties of o, those of the record r replacing them
With(o, r) == [f \in RawFields |-> IF f \in DOMAIN r THEN r[f] ELSE o[f]]

\* z.string().url(): the string parses as an absolute URL, a scheme of
\* letters followed by ":"
IsUrl(s) ==
    \E i \in 2..Len(s) :
        /\ s[i] = ":"
        /\ \A k \in 1..(i - 1) : LowerChar(s[k]) \in Range(Lower)

IsString(x) == x.t = "string"
IsNonEmptyString(x) == x.t = "string" /\ Len(x.v) >= 1
IsNumber(x) == x.t = "number"
\* z.X().optional(): undefined is accepted
Optional(x, ok) == x.t = "undefined" \/ ok
\* z.X().nullable().optional(): undefined and null are accepted
NullableOptional(x, ok) == x.t = "undefined" \/ x.t = "null" \/ ok
IsStringArray(x) ==
    x.t = "array" /\ \A i \in 1..Len(x.v) : IsString(x.v[i])
\* .default(d): undefined becomes d
Default(x, d) == IF x.t = "undefined" THEN d ELSE x.v

Strings(a) == [i \in 1..Len(a) |-> a[i].v]

\* RemoteOKJobSchema.safeParse(item).success
RemoteOKJobSchema(item) ==
    /\ IsString(item.id)
    /\ IsNonEmptyString(item.position)
    /\ IsNonEmptyString(item.company)
    /\ IsString(item.url) /\ IsUrl(item.url.v)
    /\ Optional(item.salary_min, IsNumber(item.salary_min))
    /\ Optional(item.salary_max, IsNumber(item.salary_max))
    /\ Optional(item.location, IsString(item.location))
    /\ Optional(item.tags, IsStringArray(item.tags))
    /\ IsString(item.date)

\* RemoteOKJobSchema.safeParse(item).data: the record with its defaults
RemoteOKData(item) ==
    [id |-> item.id.v,
     position |-> item.position.v,
     company |-> item.company.v,
     url |-> item.url.v,
     salary_min |-> Default(item.salary_min, 0),
     salary_max |-> Default(item.salary_max, 0),
     location |-> Default(item.location, <<>>),
     tags |-> IF item.tags.t = "undefined" THEN <<>> ELSE Strings(item.tags.v),
     date |-> item.date.v]

\* Web3CareerJobSchema.safeParse(item).success
Web3CareerJobSchema(item) ==
    /\ IsNumber(item.id)
    /\ IsNonEmptyString(item.title)
    /\ IsNonEmptyString(item.company)
    /\ IsString(item.apply_url) /\ IsUrl(item.apply_url.v)
    /\ IsString(item.date)
    /\ Optional(item.is_remote, item.is_remote.t = "boolean")
    /\ Optional(item.location, IsString(item.location))
    /\ Optional(item.country, IsString(item.country))
    /\ Optional(item.tags, IsStringArray(item.tags))
    /\ NullableOptional(item.salary_min_value,
                        IsNumber(item.salary_min_value) \/ IsString(item.salary_min_value))
    /\ NullableOptional(item.salary_max_value,
                        IsNumber(item.salary_max_value) \/ IsString(item.salary_max_value))
    /\ NullableOptional(item.salary_currency, IsString(item.salary_currency))
    /\ NullableOptional(item.salary_unit, IsString(item.salary_unit))

\* Web3CareerJobSchema.safeParse(item).data
Web3CareerData(item) ==
    [id |-> item.id.v,
     title |-> item.title.v,
     company |-> item.company.v,
     apply_url |-> item.apply_url.v,
     date |-> item.date.v,
     is_remote |-> Default(item.is_remote, FALSE),
     location |-> Default(item.location, <<>>),
     country |-> Default(item.country, <<>>),
     tags |-> IF item.tags.t = "undefined" THEN <<>> ELSE Strings(item.tags.v),
     salary_min_value |-> item.salary_min_value,
     salary_max_value |-> item.salary_max_value,
     salary_currency |-> item.salary_currency,
     salary_unit |-> item.salary_unit]

(***************************************************************************)
(* Normalization into the Job entity.                                      *)
(***************************************************************************)
\* createHash('sha256').update(input).digest('hex'): the digest is kept as
\* the hashed input, a hash without collisions
sha256(input) == [sha256 |-> input]

\* generateJobId
generateJobId(title, company) == sha256(toLowerCase(title \o company))

\* new Date(s).getTime() for the date strings of the providers: an ISO date
\* YYYY-MM-DD gives a day number that grows with the date, any other string
\* gives NaN (Invalid Date)
DateParse(s) ==
    IF /\ Len(s) = 10
       /\ s[5] = "-" /\ s[8] = "-"
       /\ AllDigits(SubSeq(s, 1, 4))
       /\ AllDigits(SubSeq(s, 6, 7))
       /\ AllDigits(SubSeq(s, 9, 10))
       /\ DigitsValue(SubSeq(s, 6, 7)) \in 1..12
       /\ DigitsValue(SubSeq(s, 9, 10)) \in 1..31
    THEN Num(DigitsValue(SubSeq(s, 1, 4)) * 372
             + (DigitsValue(SubSeq(s, 6, 7)) - 1) * 31
             + (DigitsValue(SubSeq(s, 9, 10)) - 1))
    ELSE NaN

\* raw.tags.map((t) => t.toLowerCase())
LowerAll(tags) == [i \in 1..Len(tags) |-> toLowerCase(tags[i])]

\* a || b on strings: the empty string is falsy
OrElse(a, b) == IF a = <<>> THEN b ELSE a

sRemote == <<"R", "e", "m", "o", "t", "e">>
sUSD == <<"U", "S", "D">>

\* min > 0 alone
HasSalaryMinOnly(min, max) == min > 0
\* const hasSalary = min > 0 || max > 0
HasSalary(min, max) == min > 0 \/ max > 0

\* normalizeRemoteOKJob
normalizeRemoteOKJob(raw) ==
    LET hasSalary == HasSalary(raw.salary_min, raw.salary_max)
    IN  [id |-> generateJobId(raw.position, raw.company),
         title |-> raw.position,
         company |-> raw.company,
         url |-> raw.url,
         salary |->
            [min |-> raw.salary_min,
             max |-> raw.salary_max,
             currency |-> IF hasSalary THEN sUSD ELSE <<>>,
             raw |-> IF hasSalary
                     THEN <<"$">> \o NumberToString(raw.salary_min)
                          \o <<"-", "$">> \o NumberToString(raw.salary_max)
                     ELSE <<>>],
         location |-> OrElse(raw.location, sRemote),
         remote |-> TRUE,
         skills |-> LowerAll(raw.tags),
         postedAt |-> DateParse(raw.date),
         source |-> "remoteok"]

\* normalizeWeb3CareerSalary
normalizeWeb3CareerSalary(raw) ==
    LET min == NumberOrZero(raw.salary_min_value)
        max == NumberOrZero(raw.salary_max_value)
        \* raw.salary_currency ?? ''
        currency == IF raw.salary_currency.t = "string"
                    THEN raw.salary_currency.v ELSE <<>>
        hasSalary == HasSalary(min, max)
    IN  [min |-> min,
         max |-> max,
         currency |-> IF hasSalary THEN OrElse(currency, sUSD) ELSE <<>>,
         raw |-> IF hasSalary
                 THEN OrElse(currency, <<"$">>) \o NumberToString(min) \o <<"-">>
                      \o OrElse(currency, <<"$">>) \o NumberToString(max)
                 ELSE <<>>]

\* normalizeWeb3CareerJob
normalizeWeb3CareerJob(raw) ==
    [id |-> generateJobId(raw.title, raw.company),
     title |-> raw.title,
     company |-> raw.company,
     url |-> raw.apply_url,
     salary |-> normalizeWeb3CareerSalary(raw),
     location |-> OrElse(raw.location, OrElse(raw.country, sRemote)),
     remote |-> raw.is_remote,
     skills |-> LowerAll(raw.tags),
     postedAt |-> DateParse(raw.date),
     source |-> "web3career"]

Adapters == {"remoteok", "web3career"}

\* the provider's schema and normalizer
SchemaOk(a, item) ==
    /\ item.t = "object"
    /\ IF a = "remoteok" THEN RemoteOKJobSchema(item.v)
       ELSE Web3CareerJobSchema(item.v)

Normalize(a, item) ==
    IF a = "remoteok" THEN normalizeRemoteOKJob(RemoteOKData(item.v))
    ELSE normalizeWeb3CareerJob(Web3CareerData(item.v))

\* the loop over rawJobs: jobs.push(normalize(result.data)) for each item that
\* passes safeParse, the others are skipped
RECURSIVE ValidJobs(_, _)
ValidJobs(a, rawJobs) ==
    IF rawJobs = <<>> THEN <<>>
    ELSE (IF SchemaOk(a, Head(rawJobs)) THEN <<Normalize(a, Head(rawJobs))>> ELSE <<>>)
         \o ValidJobs(a, Tail(rawJobs))

(***************************************************************************)
(* Provider responses the model draws from.                                *)
(***************************************************************************)
sDev == <<"D", "e", "v">>
sdev == <<"d", "e", "v">>
sOps == <<"O", "p", "s">>
sCryptoDev == <<"C", "r", "y", "p", "t", "o", " ", "D", "e", "v">>
sAcme == <<"A", "c", "m", "e">>
sACME == <<"A", "C", "M", "E">>
sBeta == <<"B", "e", "t", "a">>
sDevA == <<"D", "e", "v", "A">>
scme == <<"c", "m", "e">>
sParis == <<"P", "a", "r", "i", "s">>
sFR == <<"F", "R">>
sEUR == <<"E", "U", "R">>
sRust == <<"R", "u", "s", "t">>
srust == <<"r", "u", "s", "t">>
sGo == <<"G", "o">>
sgo == <<"g", "o">>
sPy == <<"P", "y">>
spy == <<"p", "y">>
sUrl == <<"h", "t", "t", "p", "s", ":", "/", "/", "a", ".", "i", "o">>
sNoUrl == <<"a", ".", "i", "o">>
sJan02 == <<"2", "0", "2", "4", "-", "0", "1", "-", "0", "2">>
sJan05 == <<"2", "0", "2", "4", "-", "0", "1", "-", "0", "5">>
sGarbage == <<"s", "o", "o", "n">>

\* RemoteOK: a full record
RO_A ==
    JObj(With(EmptyObject,
        [id |-> JStr(<<"1">>), position |-> JStr(sDev), company |-> JStr(sAcme),
         url |-> JStr(sUrl), salary_min |-> JNum(50), salary_max |-> JNum(80),
         location |-> JStr(sParis), tags |-> JArr(<<JStr(sRust), JStr(sGo)>>), date |-> JStr(sJan05)]))
\* RemoteOK: fails the schema (empty company)
RO_C ==
    JObj(With(EmptyObject,
        [id |-> JStr(<<"3">>), position |-> JStr(sOps), company |-> JStr(<<>>),
         url |-> JStr(sUrl), date |-> JStr(sJan02)]))
\* RemoteOK: a negative salary_min, no location
RO_D ==
    JObj(With(EmptyObject,
        [id |-> JStr(<<"4">>), position |-> JStr(sCryptoDev), company |-> JStr(sBeta),
         url |-> JStr(sUrl), salary_min |-> JNum(-1), salary_max |-> JNum(0),
         tags |-> JArr(<<JStr(sGo)>>), date |-> JStr(sJan02)]))
\* the leading metadata element of the RemoteOK response
RO_Legal == JObj(EmptyObject)

RemoteOKItems == {RO_A, RO_C, RO_D}

\* Web3.Career: the posting of RO_A in another case, no salary, no tags, a
\* date that does not parse
W_A ==
    JObj(With(EmptyObject,
        [id |-> JNum(7), title |-> JStr(sdev), company |-> JStr(sACME),
         apply_url |-> JStr(sUrl), date |-> JStr(sGarbage),
         salary_max_value |-> Null, salary_currency |-> Null,
         country |-> JStr(sFR)]))
\* Web3.Career: a negative salary given as a string, a currency
W_B ==
    JObj(With(EmptyObject,
        [id |-> JNum(8), title |-> JStr(sOps), company |-> JStr(sBeta),
         apply_url |-> JStr(sUrl), date |-> JStr(sJan05),
         salary_min_value |-> JStr(<<"-", "5">>), salary_max_value |-> JNum(70),
         salary_currency |-> JStr(sEUR), is_remote |-> JBool(TRUE),
         location |-> JStr(<<>>), tags |-> JArr(<<JStr(sPy)>>)]))
\* Web3.Career: fails the schema (the id is a string, the URL has no scheme)
W_C ==
    JObj(With(EmptyObject,
        [id |-> JStr(<<"9">>), title |-> JStr(sOps), company |-> JStr(sAcme),
         apply_url |-> JStr(sNoUrl), date |-> JStr(sJan02)]))
\* Web3.Career: another posting, whose title followed by its company reads
\* as RO_A's does
W_D ==
    JObj(With(EmptyObject,
        [id |-> JNum(10), title |-> JStr(sDevA), company |-> JStr(scme),
         apply_url |-> JStr(sUrl), date |-> JStr(sJan02)]))

Web3Items == {W_A, W_B, W_C, W_D}

Items(a) == IF a = "remoteok" THEN RemoteOKItems ELSE Web3Items

\* what response.json() can settle with: a rejection (the body is not JSON),
\* a JSON value that is no array, or an array
NotJson == [kind |-> "invalid"]
NotArray == [kind |-> "object"]
ArrayOf(elems) == [kind |-> "array", elems |-> elems]
NoData == [kind |-> "none"]

Bodies(a) ==
    {NotJson, NotArray, ArrayOf(<<>>)} \cup
    IF a = "remoteok"
    THEN {ArrayOf(<<RO_Legal>> \o rs) : rs \in SeqsUpTo(RemoteOKItems, MaxRecords)}
    ELSE {ArrayOf(<<JStr(<<"m">>), JStr(<<"d">>), JStr(<<"x">>)>>)} \cup
         {ArrayOf(<<JStr(<<"m">>), JStr(<<"d">>), JArr(rs)>>) :
             rs \in SeqsUpTo(Web3Items, MaxRecords)}

(***************************************************************************)
(* State.                                                                  *)
(***************************************************************************)
VARIABLES
    \* fetchAllJobs and the two adapters it awaits
    pc,             \* where each adapter stands: "idle", "awaitFetch",
                    \* "sleep", "awaitJson", "done"
    attempt,        \* fetchWithRetry's loop variable, per adapter
    calls,          \* fetch() calls issued so far, per adapter
    inflight,       \* fetch() calls not yet settled, per adapter
    failures,       \* attempts that ended without a success status
    delays,         \* sleep(RETRY_DELAY_MS) calls made
    outcome,        \* how the last settled fetch() ended, as it is logged
    response,       \* what fetchWithRetry returned: "pending", "ok", "null"
    data,           \* what response.json() settled with
    sink,           \* saveRawData: "notcalled", "saved", "failed"
    ret,            \* the sequence the adapter's promise resolved with
    raised,         \* the adapter's promise was rejected
    order,          \* the adapters in the order they finished
    aggPc,          \* fetchAllJobs: "idle", "await", "done", "rejected"
    deduplicated,   \* the sequence fetchAllJobs returns
    duplicateCount, \* fetchAllJobs' counter of dropped duplicates
    \* matchJobs
    mpc,            \* "ready", "done"
    jobs,           \* the jobs handed to matchJobs
    config,         \* the configuration handed to matchJobs
    filtered,       \* the result of filterHardNos
    scored,         \* the MatchResults before the sort
    topMatches      \* the list matchJobs returns

fetchVars ==
    <<pc, attempt, calls, inflight, failures, delays, outcome, response, data,
      sink, ret, raised, order, aggPc, deduplicated, duplicateCount>>
matchVars == <<mpc, jobs, config, filtered, scored, topMatches>>
vars == <<fetchVars, matchVars>>

(***************************************************************************)
(* fetchWithRetry.                                                         *)
(***************************************************************************)
\* the outcomes of one await fetch(...): a success status, a non-success
\* status, a transport error, the AbortSignal timeout
Outcomes == {"ok", "status", "error", "timeout"}

\* for (...; attempt <= MAX_RETRIES; ...)
LoopContinuesOffByOne(n) == n <= MAX_RETRIES + 1
LoopContinues(n) == n <= MAX_RETRIES

\* if (attempt < MAX_RETRIES) await sleep(RETRY_DELAY_MS)
DelayBeforeNext(n) == n < MAX_RETRIES

\* the adapter a is done: its promise settles with the sequence js
Finish(a, js, threw) ==
    /\ pc' = [pc EXCEPT ![a] = "done"]
    /\ ret' = [ret EXCEPT ![a] = js]
    /\ raised' = [raised EXCEPT ![a] = threw]
    /\ order' = Append(order, a)

\* the loop head with attempt = n, after `settled` calls are still in
\* flight: either the next fetch() is issued, or the loop is over,
\* fetchWithRetry returns null and the adapter returns []
Iteration(a, n, settled) ==
    /\ attempt' = [attempt EXCEPT ![a] = n]
    /\ IF LoopContinues(n)
       THEN /\ calls' = [calls EXCEPT ![a] = @ + 1]
            /\ inflight' = [inflight EXCEPT ![a] = settled + 1]
            /\ pc' = [pc EXCEPT ![a] = "awaitFetch"]
            /\ UNCHANGED <<response, ret, raised, order>>
       ELSE /\ response' = [response EXCEPT ![a] = "null"]
            /\ inflight' = [inflight EXCEPT ![a] = settled]
            /\ Finish(a, <<>>, FALSE)
            /\ UNCHANGED calls

(***************************************************************************)
(* fetchAllJobs: the call.  Promise.all([fetchFromRemoteOK(),              *)
(* fetchFromWeb3Career()]) runs each adapter up to its first await:        *)
(* RemoteOK issues its first fetch(); Web3.Career returns [] when          *)
(* WEB3_CAREER_API_KEY is not set and issues its first fetch() otherwise.  *)
(***************************************************************************)
FetchAllJobs ==
    /\ aggPc = "idle"
    /\ \E token \in BOOLEAN :
        /\ pc' = [a \in Adapters |->
                    IF a = "web3career" /\ ~token THEN "done" ELSE "awaitFetch"]
        /\ calls' = [a \in Adapters |->
                    IF a = "web3career" /\ ~token THEN 0 ELSE 1]
        /\ inflight' = calls'
        /\ order' = IF token THEN <<>> ELSE <<"web3career">>
    /\ aggPc' = "await"
    /\ UNCHANGED <<attempt, failures, delays, outcome, response, data, sink, ret,
                   raised, deduplicated, duplicateCount>>
    /\ UNCHANGED matchVars

\* await fetch(...) settles for adapter a
FetchSettles(a) ==
    /\ pc[a] = "awaitFetch"
    /\ \E o \in Outcomes :
        /\ outcome' = [outcome EXCEPT ![a] = o]
        /\ IF o = "ok"
           THEN \* if (response.ok) return response; the adapter goes on to
                \* await response.json()
                /\ response' = [response EXCEPT ![a] = "ok"]
                /\ pc' = [pc EXCEPT ![a] = "awaitJson"]
                /\ inflight' = [inflight EXCEPT ![a] = @ - 1]
                /\ UNCHANGED <<attempt, calls, failures, delays, ret, raised, order>>
           ELSE \* log.warn, then the delay or the next turn of the loop
                /\ failures' = [failures EXCEPT ![a] = @ + 1]
                /\ IF DelayBeforeNext(attempt[a])
                   THEN /\ delays' = [delays EXCEPT ![a] = @ + 1]
                        /\ pc' = [pc EXCEPT ![a] = "sleep"]
                        /\ inflight' = [inflight EXCEPT ![a] = @ - 1]
                        /\ UNCHANGED <<attempt, calls, response, ret, raised, order>>
                   ELSE /\ Iteration(a, attempt[a] + 1, inflight[a] - 1)
                        /\ UNCHANGED delays
    /\ UNCHANGED <<data, sink, aggPc, deduplicated, duplicateCount>>
    /\ UNCHANGED matchVars

\* await sleep(RETRY_DELAY_MS) settles for adapter a: attempt++ and the loop
\* head
SleepEnds(a) ==
    /\ pc[a] = "sleep"
    /\ Iteration(a, attempt[a] + 1, inflight[a])
    /\ UNCHANGED <<failures, delays, outcome, data, sink, aggPc, deduplicated,
                   duplicateCount>>
    /\ UNCHANGED matchVars

(***************************************************************************)
(* The adapters after the response: fetchFromRemoteOK and                  *)
(* fetchFromWeb3Career from `await response.json()` to their return.       *)
(***************************************************************************)
Return(js) == [kind |-> "return", jobs |-> js]
Throw == [kind |-> "throw", jobs |-> <<>>]

\* the job array of the response: data.slice(1) for RemoteOK,
\* Array.isArray(data[2]) ? data[2] : [] for Web3.Career
RawJobs(a, elems) ==
    IF a = "remoteok"
    THEN (IF elems = <<>> THEN <<>> ELSE Tail(elems))
    ELSE (IF Len(elems) >= 3 /\ elems[3].t = "array" THEN elems[3].v ELSE <<>>)

\* the body of the try block, given what response.json() settles with and
\* whether saveRawData (mkdirSync, writeFileSync) succeeds
TryBlock(a, d, sinkOk) ==
    IF d.kind = "invalid" THEN Throw
    ELSE IF d.kind # "array" THEN Return(<<>>)
    ELSE IF ~sinkOk THEN Throw
    ELSE Return(ValidJobs(a, RawJobs(a, d.elems)))

\* try { ... } catch (err) { log.warn(...); return []; }
NoCatch(o) == o
TryCatch(o) == IF o.kind = "throw" THEN Return(<<>>) ELSE o

\* await response.json() settles for adapter a and the adapter runs to its
\* return
JsonSettles(a) ==
    /\ pc[a] = "awaitJson"
    /\ \E d \in Bodies(a), sinkOk \in BOOLEAN :
        LET o == TryCatch(TryBlock(a, d, sinkOk))
        IN  /\ data' = [data EXCEPT ![a] = d]
            /\ sink' = [sink EXCEPT ![a] =
                          IF d.kind # "array" THEN "notcalled"
                          ELSE IF sinkOk THEN "saved" ELSE "failed"]
            /\ Finish(a, o.jobs, o.kind = "throw")
    /\ UNCHANGED <<attempt, calls, inflight, failures, delays, outcome, response,
                   aggPc, deduplicated, duplicateCount>>
    /\ UNCHANGED matchVars

(***************************************************************************)
(* fetchAllJobs after Promise.all.                                         *)
(***************************************************************************)
\* the loop over allJobs with its set `seen`
RECURSIVE DedupLoop(_, _, _, _)
DedupLoop(allJobs, seen, kept, dropped) ==
    IF allJobs = <<>> THEN [deduplicated |-> kept, duplicateCount |-> dropped]
    ELSE LET job == Head(allJobs)
         IN  IF job.id \in seen
             THEN DedupLoop(Tail(allJobs), seen, kept, dropped + 1)
             ELSE DedupLoop(Tail(allJobs), seen \cup {job.id}, Append(kept, job), dropped)

\* the aggregation without the deduplication
ReturnAllJobs(remoteOKJobs, web3Jobs) ==
    [deduplicated |-> remoteOKJobs \o web3Jobs, duplicateCount |-> 0]

\* const allJobs = [...remoteOKJobs, ...web3Jobs] and the deduplication
Aggregation(remoteOKJobs, web3Jobs) ==
    DedupLoop(remoteOKJobs \o web3Jobs, {}, <<>>, 0)

\* Promise.all settles as soon as one promise is settled
AnySettled == \E a \in Adapters : pc[a] = "done"
\* Promise.all: every promise is fulfilled, or one is rejected
AllSettled ==
    \/ \A a \in Adapters : pc[a] = "done"
    \/ \E a \in Adapters : raised[a]

\* await Promise.all(...) settles and fetchAllJobs runs to its return
Aggregate ==
    /\ aggPc = "await"
    /\ AllSettled
    /\ IF \E a \in Adapters : raised[a]
       THEN /\ aggPc' = "rejected"
            /\ UNCHANGED <<deduplicated, duplicateCount>>
       ELSE LET r == Aggregation(ret["remoteok"], ret["web3career"])
            IN  /\ aggPc' = "done"
                /\ deduplicated' = r.deduplicated
                /\ duplicateCount' = r.duplicateCount
    /\ UNCHANGED <<pc, attempt, calls, inflight, failures, delays, outcome,
                   response, data, sink, ret, raised, order>>
    /\ UNCHANGED matchVars

(***************************************************************************)
(* matcher.ts.                                                             *)
(***************************************************************************)
\* [job.title, job.company, ...job.skills].map((s) => s.toLowerCase())
SearchableNoCompany(job) == LowerAll(<<job.title>> \o job.skills)
Searchable(job) == LowerAll(<<job.title, job.company>> \o job.skills)

\* patterns.filter((pattern) => searchable.some((field) => field.includes(pattern)))
Matched(job, patterns) ==
    LET searchable == Searchable(job)
    IN  SelectSeq(patterns,
                  LAMBDA pattern :
                      \E i \in 1..Len(searchable) : includes(searchable[i], pattern))

\* filterHardNos
filterHardNos(js, hardNos) ==
    IF Len(hardNos) = 0 THEN js
    ELSE LET patterns == LowerAll(hardNos)
         IN  SelectSeq(js, LAMBDA job : ~(Len(Matched(job, patterns)) > 0))

\* Math.round of the rational num / den, den > 0: floor(num / den + 1/2)
MathRound(num, den) == (2 * num + den) \div (2 * den)

Min(x, y) == IF x <= y THEN x ELSE y

sremote == <<"r", "e", "m", "o", "t", "e">>

\* job.salary.min >= config.preferences.salaryMinimum ? 10 : 0
SalaryBonusStrict(job, cfg) ==
    IF job.salary.min > cfg.preferences.salaryMinimum THEN 10 ELSE 0
SalaryBonus(job, cfg) ==
    IF job.salary.min >= cfg.preferences.salaryMinimum THEN 10 ELSE 0

\* jobLocation.includes(userLocation) || userLocation.includes('remote') ? 10 : 0
LocationBonus(job, cfg) ==
    LET userLocation == toLowerCase(cfg.preferences.location)
        jobLocation == toLowerCase(job.location)
    IN  IF includes(jobLocation, userLocation) \/ includes(userLocation, sremote)
        THEN 10 ELSE 0

\* scoreJob.  skillScore + salaryBonus + locationBonus is kept as the
\* fraction (100 * matched + bonuses * total) / total; the skill lists of the
\* model are short enough for the double the code computes to round as the
\* fraction does.
scoreJob(job, cfg) ==
    LET userSkills == LowerAll(cfg.preferences.skills)
        jobSkills == LowerAll(job.skills)
        matchedSkills ==
            SelectSeq(userSkills,
                      LAMBDA skill : \E i \in 1..Len(jobSkills) : jobSkills[i] = skill)
        den == Len(userSkills)
        num == 100 * Len(matchedSkills)
               + (SalaryBonus(job, cfg) + LocationBonus(job, cfg)) * den
    IN  [score |-> Min(100, MathRound(num, den)), matchedSkills |-> matchedSkills]

\* Array.prototype.join
RECURSIVE Join(_, _)
Join(strs, sep) ==
    IF strs = <<>> THEN <<>>
    ELSE IF Len(strs) = 1 THEN strs[1]
    ELSE strs[1] \o sep \o Join(Tail(strs), sep)

\* generateExplanation.  A line is the sequence of the text fragments the
\* template literal puts together; the dash of the salary line is written --.
generateExplanation(job, matchedSkills, cfg) ==
    LET userSkillCount == Len(cfg.preferences.skills)
        meetsMin == job.salary.min >= cfg.preferences.salaryMinimum
    IN  << IF Len(matchedSkills) = userSkillCount
           THEN <<"Skills: 100% match (all ">> \o NumberToString(userSkillCount)
                \o <<" skills)">>
           ELSE <<"Skills: ">> \o NumberToString(Len(matchedSkills)) \o <<"/">>
                \o NumberToString(userSkillCount) \o <<" match (">>
                \o Join(matchedSkills, <<", ">>) \o <<")">>,
           IF job.salary.min > 0
           THEN <<"Salary: ">> \o job.salary.raw
                \o (IF meetsMin THEN <<" -- meets your minimum">>
                    ELSE <<" -- below your $">>
                         \o NumberToString(cfg.preferences.salaryMinimum)
                         \o <<" minimum">>)
           ELSE <<"Salary: Not disclosed">>,
           IF job.remote
           THEN <<"Remote: Yes (">> \o job.location \o <<")">>
           ELSE <<"Remote: Not specified (">> \o job.location \o <<")">> >>

\* filtered.map((job) => ({ job, score, matchedSkills, explanation }))
ScoreAll(js, cfg) ==
    [i \in 1..Len(js) |->
        LET r == scoreJob(js[i], cfg)
        IN  [job |-> js[i], score |-> r.score, matchedSkills |-> r.matchedSkills,
             explanation |-> generateExplanation(js[i], r.matchedSkills, cfg)]]

\* a - b on JavaScript numbers
Minus(a, b) == IF a.nan \/ b.nan THEN NaN ELSE Num(a.n - b.n)

\* (a, b) => b.score - a.score || b.job.postedAt.getTime() - a.job.postedAt.getTime()
comparefn(a, b) ==
    IF b.score - a.score # 0 THEN Num(b.score - a.score)
    ELSE Minus(b.job.postedAt, a.job.postedAt)

\* Array.prototype.sort's use of comparefn (ECMA-262 CompareArrayElements): a
\* NaN result counts as +0
SortCompare(a, b) == LET v == comparefn(a, b) IN IF v.nan THEN 0 ELSE v.n

\* ECMA-262: comparefn is a consistent comparator for the values of s
ConsistentComparator(s) ==
    LET S == Range(s)
        lt(a, b) == SortCompare(a, b) < 0
        eq(a, b) == SortCompare(a, b) = 0
        gt(a, b) == SortCompare(a, b) > 0
    IN  \A a \in S, b \in S, c \in S :
            /\ eq(a, a)
            /\ eq(a, b) => eq(b, a)
            /\ (eq(a, b) /\ eq(b, c)) => eq(a, c)
            /\ (lt(a, b) /\ lt(b, c)) => lt(a, c)
            /\ (gt(a, b) /\ gt(b, c)) => gt(a, c)
            /\ lt(a, b) <=> gt(b, a)

\* the permutation p of s is in sort order and keeps equal elements in their
\* original order (Array.prototype.sort is stable)
StableSorted(s, p) ==
    \A i \in 1..Len(s), j \in 1..Len(s) :
        i < j => /\ SortCompare(s[p[i]], s[p[j]]) <= 0
                 /\ SortCompare(s[p[i]], s[p[j]]) = 0 => p[i] < p[j]

\* what scored.sort(comparefn) can leave in the array: the stable sort order
\* when comparefn is a consistent comparator for its elements, and otherwise
\* an implementation-defined order (ECMA-262 Array.prototype.sort)
SortOutcomes(s) ==
    {[i \in 1..Len(s) |-> s[p[i]]] :
        p \in {q \in Permutations(1..Len(s)) :
                 ConsistentComparator(s) => StableSorted(s, q)}}

\* scored.slice(0, TOP_MATCHES)
Slice(s, n) == SubSeq(s, 1, Min(n, Len(s)))

\* matchJobs
MatchJobs ==
    /\ mpc = "ready"
    /\ mpc' = "done"
    /\ filtered' = filterHardNos(jobs, config.hardNos)
    /\ scored' = ScoreAll(filtered', config)
    /\ \E sorted \in SortOutcomes(scored') : topMatches' = Slice(sorted, TOP_MATCHES)
    /\ UNCHANGED <<jobs, config>>
    /\ UNCHANGED fetchVars

(***************************************************************************)
(* The inputs of matchJobs the model draws from.                           *)
(***************************************************************************)
\* the jobs an adapter can produce from the records of the model
JobsOf(a) == {Normalize(a, item) : item \in {i \in Items(a) : SchemaOk(a, i)}}

\* the sequences fetchAllJobs can return
MatchInputs ==
    {Aggregation(p[1], p[2]).deduplicated :
        p \in {q \in SeqsUpTo(JobsOf("remoteok"), MaxJobs)
                      \X SeqsUpTo(JobsOf("web3career"), MaxJobs) :
                  Len(q[1]) + Len(q[2]) <= MaxJobs}}

scrypto == <<"c", "r", "y", "p", "t", "o">>
sGO == <<"G", "O">>

\* configurations ConfigSchema accepts: at least one skill, a positive
\* salaryMinimum
Configs ==
    [preferences :
        [skills : {<<srust>>, <<srust, sgo, spy>>, <<sRust, sGO>>},
         salaryMinimum : {50, 60},
         location : {sRemote, sParis, <<>>}],
     hardNos : {<<>>, <<scrypto>>, <<sACME>>, <<sgo, spy>>}]

(***************************************************************************)
(* Specifications.                                                         *)
(***************************************************************************)
FetchInit ==
    /\ pc = [a \in Adapters |-> "idle"]
    /\ attempt = [a \in Adapters |-> 0]
    /\ calls = [a \in Adapters |-> 0]
    /\ inflight = [a \in Adapters |-> 0]
    /\ failures = [a \in Adapters |-> 0]
    /\ delays = [a \in Adapters |-> 0]
    /\ outcome = [a \in Adapters |-> "none"]
    /\ response = [a \in Adapters |-> "pending"]
    /\ data = [a \in Adapters |-> NoData]
    /\ sink = [a \in Adapters |-> "notcalled"]
    /\ ret = [a \in Adapters |-> <<>>]
    /\ raised = [a \in Adapters |-> FALSE]
    /\ order = <<>>
    /\ deduplicated = <<>>
    /\ duplicateCount = 0

MatchInit ==
    /\ filtered = <<>>
    /\ scored = <<>>
    /\ topMatches = <<>>

\* the fetch pipeline: fetchAllJobs is called once
Init ==
    /\ FetchInit /\ aggPc = "idle"
    /\ MatchInit /\ mpc = "off" /\ jobs = <<>>
    /\ config = [preferences |-> [skills |-> <<srust>>, salaryMinimum |-> 50,
                                   location |-> sRemote],
                 hardNos |-> <<>>]

Next ==
    \/ FetchAllJobs
    \/ \E a \in Adapters : FetchSettles(a)
    \/ \E a \in Adapters : SleepEnds(a)
    \/ \E a \in Adapters : JsonSettles(a)
    \/ Aggregate

Spec == Init /\ [][Next]_vars

\* fetchWithRetry alone, for the two URLs of fetchAllJobs, up to its return
RetryNext ==
    \/ FetchAllJobs
    \/ \E a \in Adapters : FetchSettles(a)
    \/ \E a \in Adapters : SleepEnds(a)

\* every await settles: each attempt ends (success, failure or timeout) and
\* each timer fires
RetrySpec ==
    /\ Init
    /\ [][RetryNext]_vars
    /\ WF_vars(FetchAllJobs)
    /\ \A a \in Adapters : WF_vars(FetchSettles(a)) /\ WF_vars(SleepEnds(a))

\* matchJobs is called once, with a sequence fetchAllJobs can return and a
\* configuration loadConfig accepts
MatchSpecInit ==
    /\ FetchInit /\ aggPc = "off"
    /\ MatchInit /\ mpc = "ready"
    /\ jobs \in MatchInputs
    /\ config \in Configs

MatchNext == MatchJobs

MatchSpec == MatchSpecInit /\ [][MatchNext]_vars

(***************************************************************************)
(* Claims.                                                                 *)
(***************************************************************************)
Returned(a) == pc[a] = "done" \/ response[a] # "pending"

C1_Safety ==
    /\ MAX_RETRIES + 1 = 3
    /\ \A a \in Adapters :
        \* at most three attempts, one at a time
        /\ calls[a] <= MAX_RETRIES + 1
        /\ inflight[a] <= 1
        /\ inflight[a] = 1 <=> pc[a] = "awaitFetch"
        \* an attempt is made only when every earlier one has failed, so a
        \* success is the last attempt
        /\ calls[a] = failures[a] + inflight[a] + (IF response[a] = "ok" THEN 1 ELSE 0)
        \* each failed attempt but the last is followed by one delay, and the
        \* next attempt comes after it
        /\ pc[a] = "sleep" => delays[a] = calls[a] /\ calls[a] <= MAX_RETRIES
        /\ (pc[a] # "sleep" /\ calls[a] > 0) => delays[a] = calls[a] - 1
        \* the first success ends the loop
        /\ response[a] = "ok" => outcome[a] = "ok" /\ pc[a] \in {"awaitJson", "done"}
        \* null after the third failure, never an exception
        /\ response[a] = "null" <=> (failures[a] = MAX_RETRIES + 1 /\ inflight[a] = 0)
        /\ response[a] = "null" => outcome[a] \in {"status", "error", "timeout"}
        /\ ~raised[a]

\* C1: fetchWithRetry makes at most MAX_RETRIES + 1 = 3 attempts for one URL,
\* one after another; a failed attempt (status, error, timeout) is followed
\* by the delay and the next attempt, the first success ends the loop, the
\* third failure returns null without raising; and when every attempt ends,
\* fetchWithRetry returns.
C1_BoundedRetry == []C1_Safety /\ <>(\A a \in Adapters : Returned(a))

\* a run where one URL fails three times, the last time by the timeout, and
\* the other succeeds at its third attempt
C1_Witness ==
    /\ response["remoteok"] = "null" /\ calls["remoteok"] = 3
    /\ outcome["remoteok"] = "timeout" /\ delays["remoteok"] = 2
    /\ response["web3career"] = "ok" /\ failures["web3career"] = 2

JobFields ==
    {"id", "title", "company", "url", "salary", "location", "remote", "skills",
     "postedAt", "source"}

IsJobSeq(js) == \A i \in 1..Len(js) : DOMAIN js[i] = JobFields

\* the Web3.Career envelope has no array at index 2
NoJobArray(a) ==
    /\ a = "web3career" /\ data[a].kind = "array"
    /\ ~(Len(data[a].elems) >= 3 /\ data[a].elems[3].t = "array")

\* WEB3_CAREER_API_KEY is not set: the adapter made no request
MissingKey(a) == a = "web3career" /\ pc[a] = "done" /\ calls[a] = 0

FailureCase(a) ==
    \/ response[a] = "null"
    \/ data[a].kind = "invalid"
    \/ data[a].kind = "object"
    \/ NoJobArray(a)
    \/ MissingKey(a)

\* C2: fetchFromRemoteOK and fetchFromWeb3Career never propagate an error:
\* whatever the fetch gives, the adapter returns a sequence of Job, and the
\* sequence is empty when all attempts failed, the body is not JSON, the JSON
\* is not an array, the Web3.Career envelope has no array at index 2, or the
\* API key is missing.
C2_NeverFails ==
    /\ aggPc # "rejected"
    /\ \A a \in Adapters :
        /\ ~raised[a]
        /\ pc[a] = "done" =>
            /\ IsJobSeq(ret[a])
            /\ FailureCase(a) => ret[a] = <<>>

\* both adapters done: RemoteOK on a body that is not JSON, Web3.Career on an
\* envelope without a job array
C2_Witness ==
    /\ pc["remoteok"] = "done" /\ data["remoteok"].kind = "invalid"
    /\ pc["web3career"] = "done" /\ NoJobArray("web3career")
    /\ ret["remoteok"] = <<>> /\ ret["web3career"] = <<>>

\* the concatenation fetchAllJobs deduplicates
Concatenated == ret["remoteok"] \o ret["web3career"]

\* the positions of the concatenation that hold the first job of their id
FirstOccurrences ==
    {i \in 1..Len(Concatenated) :
        \A j \in 1..(i - 1) : Concatenated[j].id # Concatenated[i].id}

\* the k-th smallest element of a set of numbers
Nth(S, k) == CHOOSE i \in S : Cardinality({j \in S : j <= i}) = k

\* C3: the sequence fetchAllJobs returns holds no two jobs of equal id; it is
\* the first occurrence of each id in concatenation order (RemoteOK, then
\* Web3.Career), in that order, and its length is the concatenated length
\* minus the number of dropped duplicates.
C3_Dedup ==
    aggPc = "done" =>
        /\ \A i \in 1..Len(deduplicated), j \in 1..Len(deduplicated) :
              i # j => deduplicated[i].id # deduplicated[j].id
        /\ Len(deduplicated) = Cardinality(FirstOccurrences)
        /\ \A k \in 1..Len(deduplicated) :
              deduplicated[k] = Concatenated[Nth(FirstOccurrences, k)]
        /\ Len(deduplicated) = Len(Concatenated) - duplicateCount

\* a run that drops one duplicate inside RemoteOK's list and one across the
\* providers
C3_Witness ==
    /\ aggPc = "done"
    /\ duplicateCount = 2
    /\ Len(ret["remoteok"]) = 2 /\ Len(ret["web3career"]) = 2
    /\ Len(deduplicated) = 2
    /\ deduplicated[1].source = "remoteok" /\ deduplicated[2].source = "web3career"

\* the job is in the aggregate, or the aggregate holds the earlier job of
\* its id
Present(job) == \E k \in 1..Len(deduplicated) : deduplicated[k].id = job.id

CISubstring(p, f) ==
    \E off \in 0..(Len(f) - Len(p)) :
        \A k \in 1..Len(p) : LowerChar(p[k]) = LowerChar(f[off + k])

\* a hard-no pattern is found in the title, the company or a skill
Excluded(job) ==
    \E i \in 1..Len(config.hardNos) :
        \E f \in {job.title, job.company} \cup Range(job.skills) :
            CISubstring(config.hardNos[i], f)

\* the positions of the jobs no hard-no pattern excludes
KeptPositions == {i \in 1..Len(jobs) : ~Excluded(jobs[i])}

\* C5: filterHardNos returns the jobs that no hard-no pattern excludes (a
\* pattern excludes a job when it is a case-insensitive substring of the
\* title, the company or a skill), in their order; with no hard-no pattern it
\* returns its input.
C5_Filter ==
    mpc = "done" =>
        /\ Len(filtered) = Cardinality(KeptPositions)
        /\ \A k \in 1..Len(filtered) : filtered[k] = jobs[Nth(KeptPositions, k)]
        /\ config.hardNos = <<>> => filtered = jobs

\* the pattern "ACME" drops the job of the company "Acme" and keeps the two
\* that follow it
C5_Witness ==
    /\ mpc = "done"
    /\ config.hardNos = <<sACME>>
    /\ Len(jobs) = 3 /\ Len(filtered) = 2
    /\ jobs[1].company = sAcme /\ filtered = Tail(jobs)

\* the number of preference skills equal, ignoring case, to a skill of the job
MatchedCount(job) ==
    Cardinality({i \in 1..Len(config.preferences.skills) :
        \E j \in 1..Len(job.skills) :
            toLowerCase(config.preferences.skills[i]) = toLowerCase(job.skills[j])})

\* round(min(100, num / den)), rounding a half up
RoundMin100(num, den) ==
    IF num >= 100 * den THEN 100
    ELSE CHOOSE r \in 0..100 : 2 * den * r <= 2 * num + den /\ 2 * num + den < 2 * den * (r + 1)

ExpectedScore(job) ==
    LET total == Len(config.preferences.skills)
        salaryBonus ==
            IF job.salary.min >= config.preferences.salaryMinimum THEN 10 ELSE 0
        locationBonus ==
            IF \/ CISubstring(config.preferences.location, job.location)
               \/ CISubstring(sremote, config.preferences.location)
            THEN 10 ELSE 0
    IN  RoundMin100(100 * MatchedCount(job) + (salaryBonus + locationBonus) * total,
                    total)

\* C6: for preferences with a non-empty skill list, scoreJob returns an
\* integer in 0..100 equal to round(min(100, skillScore + salaryBonus +
\* locationBonus)), with skillScore = matched / total * 100, salaryBonus = 10
\* iff salary.min >= salaryMinimum, locationBonus = 10 iff the job location
\* contains the preferred location or the preferred location contains
\* "remote", case ignored.
C6_Score ==
    mpc = "done" =>
        \A k \in 1..Len(scored) :
            /\ scored[k].score \in 0..100
            /\ scored[k].score = ExpectedScore(scored[k].job)

\* 2 of 3 skills matched, the salary minimum met exactly, the location
\* matched: 66.67 + 10 + 10 gives 87
C6_Witness ==
    /\ mpc = "done"
    /\ Len(config.preferences.skills) = 3
    /\ config.preferences.location = sParis
    /\ \E k \in 1..Len(scored) :
        /\ scored[k].score = 87
        /\ Len(scored[k].matchedSkills) = 2
        /\ scored[k].job.salary.min = config.preferences.salaryMinimum

\* the position of a MatchResult in the list before the sort
PositionInScored(m) == CHOOSE k \in 1..Len(scored) : scored[k] = m

\* C7: the list matchJobs returns has min(10, number of filtered jobs)
\* entries, is sorted by score descending, orders entries of equal score by
\* postedAt descending, keeps the original order of entries equal on both,
\* and leaves out only entries that sort after every entry returned.
C7_Ranked ==
    mpc = "done" =>
        /\ Len(topMatches) = Min(10, Len(filtered))
        /\ \A i \in 1..Len(topMatches), j \in 1..Len(topMatches) :
              i < j =>
                 LET x == topMatches[i]
                     y == topMatches[j]
                 IN  /\ x.score >= y.score
                     /\ (x.score = y.score /\ ~x.job.postedAt.nan /\ ~y.job.postedAt.nan)
                           => x.job.postedAt.n >= y.job.postedAt.n
                     /\ (x.score = y.score /\ x.job.postedAt = y.job.postedAt)
                           => PositionInScored(x) < PositionInScored(y)
        /\ \A k \in 1..Len(scored) :
              (\A i \in 1..Len(topMatches) : topMatches[i] # scored[k]) =>
                 \A i \in 1..Len(topMatches) : topMatches[i].score >= scored[k].score

\* the positions of the raw records that pass the provider's schema
ValidPositions(a, rawJobs) == {i \in 1..Len(rawJobs) : SchemaOk(a, rawJobs[i])}

\* C8: an adapter that got an array returns exactly the normalized forms of
\* the records that pass validation, in their order, whatever the number and
\* the position of the invalid records.
C8_DropInvalidOnly ==
    \A a \in Adapters :
        (pc[a] = "done" /\ data[a].kind = "array") =>
            LET rawJobs == RawJobs(a, data[a].elems)
                valid == ValidPositions(a, rawJobs)
            IN  /\ Len(ret[a]) = Cardinality(valid)
                /\ \A k \in 1..Len(ret[a]) :
                      ret[a][k] = Normalize(a, rawJobs[Nth(valid, k)])

\* C9: when saveRawData fails, the adapter returns the sequence it returns
\* when saveRawData succeeds.
C9_SinkSilent ==
    \A a \in Adapters :
        (pc[a] = "done" /\ sink[a] = "failed") =>
            /\ ~raised[a]
            /\ ret[a] = TryCatch(TryBlock(a, data[a], TRUE)).jobs

\* C10: every Job an adapter produces has salary.min >= 0 and salary.max >= 0.
C10_SalaryNonNegative ==
    \A a \in Adapters :
        \A i \in 1..Len(ret[a]) :
            ret[a][i].salary.min >= 0 /\ ret[a][i].salary.max >= 0


\* C11: in every Job an adapter produces, salary.raw and salary.currency are
\* both non-empty strings when salary.min > 0 or salary.max > 0, and both the
\* empty string otherwise; a record without salary fields, or with 0 and 0,
\* yields raw = "" and currency = "".
C11_SalaryText ==
    \A a \in Adapters :
        \A i \in 1..Len(ret[a]) :
            LET salary == ret[a][i].salary
            IN  /\ DOMAIN salary.raw = 1..Len(salary.raw)
                /\ DOMAIN salary.currency = 1..Len(salary.currency)
                /\ IF salary.min > 0 \/ salary.max > 0
                   THEN Len(salary.raw) > 0 /\ Len(salary.currency) > 0
                   ELSE salary.raw = <<>> /\ salary.currency = <<>>

\* a RemoteOK job with a salary, a Web3.Career job whose salary fields were
\* absent or null, and a Web3.Career job with only its maximum positive
C11_Witness ==
    /\ \E i \in 1..Len(ret["remoteok"]) :
          LET salary == ret["remoteok"][i].salary
          IN  salary.min = 50 /\ salary.currency = sUSD
              /\ salary.raw = <<"$", "5", "0", "-", "$", "8", "0">>
    /\ \E i \in 1..Len(ret["web3career"]) :
          ret["web3career"][i].salary =
              [min |-> 0, max |-> 0, currency |-> <<>>, raw |-> <<>>]
    /\ \E i \in 1..Len(ret["web3career"]) :
          LET salary == ret["web3career"][i].salary
          IN  salary.min <= 0 /\ salary.max = 70 /\ salary.currency = sEUR

\* every preference skill is, ignoring case, one of the job's skills
AllSkillsMatched(job) ==
    \A i \in 1..Len(config.preferences.skills) :
        \E k \in 1..Len(job.skills) :
            toLowerCase(job.skills[k]) = toLowerCase(config.preferences.skills[i])

\* the salary line the claim describes: the raw salary string with its
\* annotation, which says "meets" exactly when scoreJob awards the bonus
AnnotatedSalary(job) ==
    <<"Salary: ">> \o job.salary.raw
    \o (IF SalaryBonus(job, config) = 10
        THEN <<" -- meets your minimum">>
        ELSE <<" -- below your $">>
             \o NumberToString(config.preferences.salaryMinimum)
             \o <<" minimum">>)

\* C12: generateExplanation returns exactly three lines, skills then salary
\* then remote: line 1 has the "100% match" wording exactly when every
\* preference skill matched; line 2 is "Salary: Not disclosed" when
\* salary.min = 0 and otherwise the raw salary string annotated as meeting the
\* minimum exactly when salary.min >= salaryMinimum and as below it otherwise;
\* line 3 is "Remote: Yes (<location>)" when remote is true and
\* "Remote: Not specified (<location>)" when it is false.
C12_Explanation ==
    mpc = "done" =>
        \A k \in 1..Len(scored) :
            LET job == scored[k].job
                lines == scored[k].explanation
            IN  /\ Len(lines) = 3
                /\ (Head(lines[1]) = "Skills: 100% match (all ")
                       <=> AllSkillsMatched(job)
                /\ lines[2] = IF job.salary.min = 0
                              THEN <<"Salary: Not disclosed">>
                              ELSE AnnotatedSalary(job)
                /\ lines[3] = IF job.remote
                              THEN <<"Remote: Yes (">> \o job.location \o <<")">>
                              ELSE <<"Remote: Not specified (">> \o job.location
                                   \o <<")">>

\* the two jobs are the same posting: equal titles and equal companies, the
\* case of the letters ignored
SamePosting(x, y) ==
    /\ toLowerCase(x.title) = toLowerCase(y.title)
    /\ toLowerCase(x.company) = toLowerCase(y.company)

\* C13: with a hash that is injective on its input, two jobs get the same id
\* from generateJobId if and only if their titles are equal ignoring case and
\* their companies are equal ignoring case; so fetchAllJobs never drops a job
\* whose (lower-cased title, lower-cased company) pair differs from that of
\* every job before it in concatenation order.
C13_SamePostingOnly ==
    /\ \A i \in 1..Len(Concatenated), j \in 1..Len(Concatenated) :
          (Concatenated[i].id = Concatenated[j].id)
              <=> SamePosting(Concatenated[i], Concatenated[j])
    /\ aggPc = "done" =>
          \A i \in 1..Len(Concatenated) :
              (\A j \in 1..(i - 1) : ~SamePosting(Concatenated[j], Concatenated[i]))
                  => \E k \in 1..Len(deduplicated) :
                        deduplicated[k] = Concatenated[i]
=============================================================================
